---------------------------- MODULE Spec2Model ----------------------------
(***************************************************************************)
(* A model of the Sips cafe-review web application (src/app.py).           *)
(*                                                                         *)
(* State: the three collections the handlers touch (users, cafes,          *)
(* reviews), the session cookie of each client, the request each client    *)
(* has in flight (the handler's position and its local variables) and     *)
(* last, the response the latest step sent (NoResponse when it sent none), *)
(* with the route, the identity and the form of the request it answers.    *)
(*                                                                         *)
(* Granularity: one step holds at most one operation on a mutable          *)
(* collection, so the steps of concurrent requests interleave exactly      *)
(* where the store operations of the handlers can.  Form fields are        *)
(* immutable request data: a step draws a field where the handler first    *)
(* reads it.                                                               *)
(*                                                                         *)
(* Encoding.  A Python str is a sequence of one-character strings; the     *)
(* Python value None is the sequence None.  An ObjectId is a positive      *)
(* integer; an identifier string (in a URL or in the session cookie) is    *)
(* the integer n > 0 for the 24-hex-digit rendering of ObjectId n, and     *)
(* BadIdStr for a string bson's ObjectId() refuses.                        *)
(***************************************************************************)
EXTENDS Integers, Sequences, FiniteSets, TLC

VARIABLES users, cafes, reviews, nextId, now, session, req, last

vars == <<users, cafes, reviews, nextId, now, session, req, last>>

(***************************************************************************)
(* Bounds of the model.                                                    *)
(***************************************************************************)
MaxUsers == 2
MaxReviews == 2

Clients == {1, 2}

(***************************************************************************)
(* Program constants.                                                      *)
(***************************************************************************)
MinPasswordLen == 6
MinRating == 1
MaxRating == 5

(***************************************************************************)
(* Python values.                                                          *)
(***************************************************************************)
None == <<"None">>
NoSession == 0
BadIdStr == -1
NoRole == "None"

\* bool(s) of an optional str: None and "" are falsy
Truthy(s) == s # None /\ s # <<>>

IsSpace(ch) == ch = " "

RECURSIVE LStrip(_)
LStrip(s) == IF s # <<>> /\ IsSpace(Head(s)) THEN LStrip(Tail(s)) ELSE s

RECURSIVE RStrip(_)
RStrip(s) ==
    IF s # <<>> /\ IsSpace(s[Len(s)]) THEN RStrip(SubSeq(s, 1, Len(s) - 1)) ELSE s

\* str.strip()
Strip(s) == RStrip(LStrip(s))

LowerChar(ch) ==
    CASE ch = "A" -> "a"
      [] ch = "B" -> "b"
      [] OTHER -> ch

\* str.lower()
Lower(s) == [i \in 1..Len(s) |-> LowerChar(s[i])]

AsciiDigits == {"0", "1", "2", "3", "4", "5", "6", "7", "8", "9"}

\* Characters with the Unicode property Digit that are not decimal digits:
\* "SUP2" stands for U+00B2 (superscript two).
OtherDigits == {"SUP2"}

\* str.isdigit(): non-empty and every character has the Digit property
IsDigit(s) == s # <<>> /\ \A i \in 1..Len(s) : s[i] \in AsciiDigits \cup OtherDigits

DigitValue(ch) ==
    CASE ch = "0" -> 0 [] ch = "1" -> 1 [] ch = "2" -> 2 [] ch = "3" -> 3
      [] ch = "4" -> 4 [] ch = "5" -> 5 [] ch = "6" -> 6 [] ch = "7" -> 7
      [] ch = "8" -> 8 [] ch = "9" -> 9

\* int(s) raises ValueError unless s is a decimal literal
IntRaises(s) == s = <<>> \/ \E i \in 1..Len(s) : s[i] \notin AsciiDigits

RECURSIVE IntOf(_)
IntOf(s) ==
    IF s = <<>> THEN 0
    ELSE 10 * IntOf(SubSeq(s, 1, Len(s) - 1)) + DigitValue(s[Len(s)])

\* bson ObjectId(s): raises for a string that is not 24 hex digits
ObjectIdRaises(s) == s <= 0
ObjectId(s) == s

\* werkzeug generate_password_hash / check_password_hash
generate_password_hash(password) == [method |-> "scrypt", plain |-> password]
check_password_hash(pwhash, password) == pwhash.plain = password


(***************************************************************************)
(* MongoDB $regex with $options "i" (PCRE, caseless, unanchored), for the  *)
(* patterns over letters, ".", "(" and ")": a letter matches itself in     *)
(* either case, "." matches any character, a group without alternation or  *)
(* quantifier matches what its body matches, and a pattern whose           *)
(* parentheses do not balance does not compile (the find raises            *)
(* OperationFailure).                                                      *)
(***************************************************************************)
RECURSIVE ParenDepth(_, _)
ParenDepth(p, d) ==
    IF d < 0 THEN -1
    ELSE IF p = <<>> THEN d
    ELSE ParenDepth(Tail(p), CASE Head(p) = "(" -> d + 1
                               [] Head(p) = ")" -> d - 1
                               [] OTHER -> d)

RegexRaises(p) == ParenDepth(p, 0) # 0

IsParen(ch) == ch \in {"(", ")"}
NotParen(ch) == ~IsParen(ch)

RegexTokens(p) == SelectSeq(p, NotParen)

TokenMatches(t, ch) == t = "." \/ LowerChar(t) = LowerChar(ch)

RegexSearch(p, name) ==
    LET t == RegexTokens(p)
    IN  \E o \in 0..Len(name) :
            /\ o + Len(t) <= Len(name)
            /\ \A j \in 1..Len(t) : TokenMatches(t[j], name[o + j])

(***************************************************************************)
(* The document store.  users is kept in insertion order (find_one returns *)
(* the first match in natural order); reviews and cafes are sets of        *)
(* documents with distinct _id.                                            *)
(***************************************************************************)
Min(S) == CHOOSE x \in S : \A y \in S : x <= y

\* index of the first user with the given _id / email / username, 0 for none
UserIndexById(us, id) ==
    LET m == {i \in 1..Len(us) : us[i].id = id} IN IF m = {} THEN 0 ELSE Min(m)

UserIndexByEmail(us, email) ==
    LET m == {i \in 1..Len(us) : us[i].email = email} IN IF m = {} THEN 0 ELSE Min(m)

UserIndexByUsername(us, username) ==
    LET m == {i \in 1..Len(us) : us[i].username = username}
    IN  IF m = {} THEN 0 ELSE Min(m)

\* users_col.update_one({"_id": id}, {"$set": fields})
UpdateUser(us, id, fields) ==
    LET i == UserIndexById(us, id)
    IN  IF i = 0 THEN us
        ELSE [us EXCEPT ![i] = [f \in DOMAIN us[i] |->
                 IF f \in DOMAIN fields THEN fields[f] ELSE us[i][f]]]

ReviewsById(rs, id) == {r \in rs : r.id = id}
CafesById(cs, id) == {k \in cs : k.id = id}

\* reviews_col.delete_one({"_id": rid})
DeleteReview(rs, rid) == rs \ ReviewsById(rs, rid)

\* an update whose filter matches every review
UpdateReview_NoFilter(rs, rid, rating, text) ==
    {[r EXCEPT !.rating = rating, !.text = text] : r \in rs}

\* reviews_col.update_one({"_id": rid}, {"$set": {"rating": .., "text": ..}})
UpdateReview(rs, rid, rating, text) ==
    {IF r.id = rid THEN [r EXCEPT !.rating = rating, !.text = text] ELSE r : r \in rs}

(***************************************************************************)
(* Identity: flask-login's current_user, loaded through load_user.         *)
(***************************************************************************)
Anonymous == [id |-> 0, username |-> <<>>, role |-> NoRole]

\* class User over a user document: get_id, username, role
User(doc) == [id |-> doc.id, username |-> doc.username, role |-> doc.role]

\* the cookie trusted without the lookup
load_user_TrustsCookie(us, user_id) ==
    IF user_id = NoSession \/ ObjectIdRaises(user_id) THEN Anonymous
    ELSE [id |-> ObjectId(user_id), username |-> <<>>, role |-> NoRole]

load_user(us, user_id) ==
    IF user_id = NoSession THEN Anonymous
    ELSE IF ObjectIdRaises(user_id) THEN Anonymous
    ELSE LET i == UserIndexById(us, ObjectId(user_id))
         IN  IF i = 0 THEN Anonymous ELSE User(us[i])

IsAuthenticated(cu) == cu.id # 0

LoginRequiredRoutes ==
    {"select_role", "logout", "home", "search", "cafe_detail", "add_review",
     "delete_review", "edit_review", "settings", "profile", "saved_places"}

OpenRoutes == {"index", "signup", "login"}

Routes == LoginRequiredRoutes \cup OpenRoutes

login_required(route) == route \in LoginRequiredRoutes

(***************************************************************************)
(* Requests and responses.                                                 *)
(***************************************************************************)
NoForm == [none |-> TRUE]

Idle ==
    [route |-> "", pc |-> "idle", cu |-> Anonymous, form |-> NoForm, rid |-> 0,
     cafe |-> 0, username |-> <<>>, email |-> <<>>, password |-> <<>>]

NoResponse ==
    [route |-> "", user |-> 0, form |-> NoForm, kind |-> "none", page |-> "",
     flash |-> "", rid |-> 0, data |-> {}]

Response(c, route, form, kind, page, flash, rid, data) ==
    [route |-> route, user |-> req[c].cu.id, form |-> form, kind |-> kind,
     page |-> page, flash |-> flash, rid |-> rid, data |-> data]

\* the handler of client c returns: the response goes out, the request ends
Reply(c, route, form, kind, page, flash, rid, data) ==
    /\ last' = Response(c, route, form, kind, page, flash, rid, data)
    /\ req' = [req EXCEPT ![c] = Idle]

\* what flask-login lets through to the view function of a route
Admits(route, cu) == login_required(route) => IsAuthenticated(cu)

\* The route is request data: Authenticate reads it to apply login_required
\* and the view function's first step reads it again, so a request keeps it
\* in the state only from that step on.
Starts(c, route) == req[c].pc = "handler" /\ Admits(route, req[c].cu)

At(c, route, pc) == req[c].route = route /\ req[c].pc = pc

(***************************************************************************)
(* Identifiers.  The cafes hold the first identifiers; users and reviews   *)
(* take fresh ones from nextId; GhostId is an identifier no document ever  *)
(* gets.                                                                   *)
(***************************************************************************)
CafeNames == <<<<"A", "b">>, <<"a", ".">>>>
FirstId == Len(CafeNames) + 1
GhostId == FirstId + MaxUsers + MaxReviews

MkCafes(names) == {[id |-> i, name |-> names[i]] : i \in 1..Len(names)}

(***************************************************************************)
(* Request inputs.                                                         *)
(***************************************************************************)
P5 == <<"p", "p", "p", "p", "p">>
P6 == <<"p", "p", "p", "p", "p", "p">>

UsernameInputs == {<<>>, <<" ">>, <<" ", "a">>, <<"b">>}
EmailInputs == {<<>>, <<" ", "A">>, <<"a">>, <<"b">>}
PasswordInputs == {<<>>, P5, P6}
NextInputs == {"", "/saved"}
RoleInputs == {"customer", "owner", "admin", NoRole}
ProfileUsernameInputs == {None, <<"a">>, <<"b">>}
PhoneInputs == {<<"5">>}
ShopLocationInputs == {<<"s">>}
OperationHoursInputs == {<<"h">>}
Absent == <<"Absent">>

(***************************************************************************)
(* The state after start-up: empty users and reviews, the cafes loaded, no *)
(* request in flight.  A client's cookie may be left over from an earlier  *)
(* database: malformed, or naming a user that does not exist.              *)
(***************************************************************************)
Init ==
    /\ users = <<>>
    /\ cafes = MkCafes(CafeNames)
    /\ reviews = {}
    /\ nextId = FirstId
    /\ now = 0
    /\ session \in [Clients -> {NoSession, BadIdStr, GhostId}]
    /\ req = [c \in Clients |-> Idle]
    /\ last = NoResponse

Store == <<users, cafes, reviews, nextId, now>>

(***************************************************************************)
(* Every request: flask-login loads current_user from the session cookie   *)
(* (load_user), and a login_required route answers an anonymous client     *)
(* with a redirect to login_view and login_message.                        *)
(***************************************************************************)
Authenticate(c, route) ==
    /\ req[c].pc = "idle"
    /\ LET cu == load_user(users, session[c])
       IN  IF ~Admits(route, cu)
           THEN /\ last' = [NoResponse EXCEPT !.route = route,
                                !.kind = "redirect", !.page = "login",
                                !.flash = "Please log in to access that page."]
                /\ UNCHANGED req
           ELSE /\ req' = [req EXCEPT ![c] = [Idle EXCEPT !.pc = "handler",
                                                 !.cu = cu]]
                /\ last' = NoResponse
    /\ UNCHANGED <<Store, session>>

(***************************************************************************)
(* GET /                                                                   *)
(***************************************************************************)
Index(c) ==
    /\ Starts(c, "index")
    /\ IF IsAuthenticated(req[c].cu)
       THEN Reply(c, "index", NoForm, "redirect", "home", "", 0, {})
       ELSE Reply(c, "index", NoForm, "render", "index.html", "", 0, {})
    /\ UNCHANGED <<Store, session>>

(***************************************************************************)
(* POST /signup: the form checks and the e-mail lookup, the username       *)
(* lookup, the insert.                                                     *)
(***************************************************************************)
SignupsInFlight ==
    Cardinality({d \in Clients : req[d].route = "signup"
                                 /\ req[d].pc \in {"find_username", "insert"}})

\* the password length left unchecked
SignupError_NoLengthCheck(username, email, password, us) ==
    IF ~Truthy(username) THEN "Username is required."
    ELSE IF ~Truthy(email) THEN "Email is required."
    ELSE IF ~Truthy(password) THEN "Password is required."
    ELSE IF UserIndexByEmail(us, email) # 0
         THEN "An account with that email already exists."
    ELSE ""

SignupError(username, email, password, us) ==
    IF ~Truthy(username) THEN "Username is required."
    ELSE IF ~Truthy(email) THEN "Email is required."
    ELSE IF ~Truthy(password) THEN "Password is required."
    ELSE IF Len(password) < MinPasswordLen
         THEN "Password must be at least 6 characters."
    ELSE IF UserIndexByEmail(us, email) # 0
         THEN "An account with that email already exists."
    ELSE ""

SignupForm(username, email, password) ==
    [username |-> username, email |-> email, password |-> password]

SignupValidate(c, username_in, email_in, password) ==
    /\ Starts(c, "signup")
    /\ IF IsAuthenticated(req[c].cu)
       THEN Reply(c, "signup", NoForm, "redirect", "home", "", 0, {})
       ELSE LET form == SignupForm(username_in, email_in, password)
                username == Strip(username_in)
                email == Lower(Strip(email_in))
                error == SignupError(username, email, password, users)
            IN  IF error # ""
                THEN Reply(c, "signup", form, "render", "signup.html", error, 0, {})
                ELSE /\ Len(users) + SignupsInFlight < MaxUsers
                     /\ req' = [req EXCEPT ![c].route = "signup",
                                           ![c].pc = "find_username",
                                           ![c].form = form,
                                           ![c].username = username,
                                           ![c].email = email,
                                           ![c].password = password]
                     /\ last' = NoResponse
    /\ UNCHANGED <<Store, session>>

SignupFindUsername(c) ==
    /\ At(c, "signup", "find_username")
    /\ IF UserIndexByUsername(users, req[c].username) # 0
       THEN Reply(c, "signup", req[c].form, "render", "signup.html",
                  "That username is already taken.", 0, {})
       ELSE /\ req' = [req EXCEPT ![c].pc = "insert"]
            /\ last' = NoResponse
    /\ UNCHANGED <<Store, session>>

NewUser(id, username, email, password, t) ==
    [id |-> id, username |-> username, email |-> email,
     password_hash |-> generate_password_hash(password), created_at |-> t,
     role |-> NoRole, phone |-> Absent, shop_location |-> Absent,
     operation_hours |-> Absent]

SignupInsert(c) ==
    /\ At(c, "signup", "insert")
    /\ users' = Append(users, NewUser(nextId, req[c].username, req[c].email,
                                      req[c].password, now))
    /\ nextId' = nextId + 1
    /\ now' = now + 1
    /\ session' = [session EXCEPT ![c] = nextId]
    /\ Reply(c, "signup", req[c].form, "redirect", "select_role",
             "Welcome to Sips", 0, {})
    /\ UNCHANGED <<cafes, reviews>>

(***************************************************************************)
(* POST /select-role                                                       *)
(***************************************************************************)
SelectRole(c, role) ==
    /\ Starts(c, "select_role")
    /\ IF role \in {"customer", "owner"}
       THEN /\ users' = UpdateUser(users, ObjectId(req[c].cu.id), [role |-> role])
            /\ Reply(c, "select_role", NoForm, "redirect", "home", "Account set up", 0, {})
       ELSE /\ Reply(c, "select_role", NoForm, "render", "select_role.html", "", 0, {})
            /\ UNCHANGED users
    /\ UNCHANGED <<cafes, reviews, nextId, now, session>>

(***************************************************************************)
(* POST /login                                                             *)
(***************************************************************************)
\* the password left unchecked
LoginFails_UnknownEmailOnly(us, email, password) ==
    UserIndexByEmail(us, email) = 0

LoginFails(us, email, password) ==
    LET i == UserIndexByEmail(us, email)
    IN  i = 0 \/ ~check_password_hash(us[i].password_hash, password)

LoginForm(email, password) == [email |-> email, password |-> password]

Login(c, email_in, password, next_page) ==
    /\ Starts(c, "login")
    /\ IF IsAuthenticated(req[c].cu)
       THEN /\ Reply(c, "login", NoForm, "redirect", "home", "", 0, {})
            /\ UNCHANGED session
       ELSE LET form == LoginForm(email_in, password)
                email == Lower(Strip(email_in))
            IN  IF LoginFails(users, email, password)
                THEN /\ Reply(c, "login", form, "render", "login.html",
                              "Invalid email or password.", 0, {})
                     /\ UNCHANGED session
                ELSE /\ session' = [session EXCEPT
                            ![c] = users[UserIndexByEmail(users, email)].id]
                     /\ Reply(c, "login", form, "redirect",
                              IF next_page # "" THEN next_page ELSE "home",
                              "Welcome back", 0, {})
    /\ UNCHANGED Store

(***************************************************************************)
(* GET /logout                                                             *)
(***************************************************************************)
Logout(c) ==
    /\ Starts(c, "logout")
    /\ session' = [session EXCEPT ![c] = NoSession]
    /\ Reply(c, "logout", NoForm, "redirect", "index", "You've been logged out.", 0, {})
    /\ UNCHANGED Store

(***************************************************************************)
(* POST /profile                                                           *)
(***************************************************************************)
ProfileFields(cu, username, phone, shop_location, operation_hours) ==
    IF cu.role = "owner"
    THEN [username |-> username, phone |-> phone,
          shop_location |-> shop_location, operation_hours |-> operation_hours]
    ELSE [username |-> username, phone |-> phone]

Profile(c, username, phone, shop_location, operation_hours) ==
    /\ Starts(c, "profile")
    /\ users' = UpdateUser(users, ObjectId(req[c].cu.id),
                    ProfileFields(req[c].cu, username, phone, shop_location,
                                  operation_hours))
    /\ Reply(c, "profile", NoForm, "redirect", "settings", "Profile updated successfully!", 0, {})
    /\ UNCHANGED <<cafes, reviews, nextId, now, session>>

(***************************************************************************)
(* GET /settings, GET /saved                                               *)
(***************************************************************************)
Settings(c) ==
    /\ Starts(c, "settings")
    /\ Reply(c, "settings", NoForm, "render", "settings.html", "", 0, {})
    /\ UNCHANGED <<Store, session>>

SavedPlaces(c) ==
    /\ Starts(c, "saved_places")
    /\ Reply(c, "saved_places", NoForm, "render", "saved_places.html", "", 0, {})
    /\ UNCHANGED <<Store, session>>

(***************************************************************************)
(* Inputs of the cafe and review routes.                                   *)
(***************************************************************************)
MaxQueryLen == 2
QueryChars == {"a", "B", ".", "(", ")"}
QueryInputs ==
    {None} \cup UNION {[1..n -> QueryChars] : n \in 0..MaxQueryLen}

IdInputs == (1..GhostId) \cup {BadIdStr}
SelectedInputs == {NoSession} \cup IdInputs

\* the forms (rating, text) of add_review and edit_review
Form(rating, text) == [rating |-> rating, text |-> text]
ReviewForms ==
    {Form(<<" ", "4">>, <<" ", "g">>), Form(<<"5">>, <<"n">>),
     Form(<<>>, <<"g">>), Form(<<"x">>, <<"g">>), Form(<<"-", "1">>, <<"g">>),
     Form(<<"0">>, <<"n">>), Form(<<"6">>, <<"g">>), Form(<<"SUP2">>, <<"g">>),
     Form(<<"4">>, <<" ">>), Form(<<"5">>, <<>>)}

(***************************************************************************)
(* GET /home, GET /search, GET /cafe/<cafe_id>                             *)
(***************************************************************************)
Home(c, selected) ==
    /\ Starts(c, "home")
    /\ LET selected_cafe ==
               IF selected = NoSession \/ ObjectIdRaises(selected) THEN {}
               ELSE CafesById(cafes, ObjectId(selected))
       IN  Reply(c, "home", NoForm, "render", "home.html", "", 0, cafes \cup selected_cafe)
    /\ UNCHANGED <<Store, session>>

SearchResult(cs, query) == {k \in cs : RegexSearch(query, k.name)}

Search(c, query) ==
    /\ Starts(c, "search")
    /\ IF ~Truthy(query)
       THEN Reply(c, "search", [q |-> query], "render", "search.html", "", 0, {})
       ELSE IF RegexRaises(query)
       THEN Reply(c, "search", [q |-> query], "fault", "500",
                  "OperationFailure", 0, {})
       ELSE Reply(c, "search", [q |-> query], "render", "search.html", "", 0,
                  SearchResult(cafes, query))
    /\ UNCHANGED <<Store, session>>

CafeDetail(c, cafe_id) ==
    /\ Starts(c, "cafe_detail")
    /\ IF ObjectIdRaises(cafe_id)
       THEN Reply(c, "cafe_detail", NoForm, "redirect", "home", "Invalid cafe link.", 0, {})
       ELSE IF CafesById(cafes, ObjectId(cafe_id)) = {}
       THEN Reply(c, "cafe_detail", NoForm, "redirect", "home", "Cafe not found.", 0, {})
       ELSE Reply(c, "cafe_detail", NoForm, "render", "indiv-cafe-screen.html", "", 0,
                  {r \in reviews : r.cafe_id = ObjectId(cafe_id)})
    /\ UNCHANGED <<Store, session>>

(***************************************************************************)
(* The checks add_review and edit_review make on the form: "" when the     *)
(* form passes, "ValueError" when int() raises, else the flash message.    *)
(***************************************************************************)
\* the upper end of the rating range left unchecked
ReviewFormError_NoUpperBound(rating_str, text, not_a_number) ==
    IF ~IsDigit(rating_str) THEN not_a_number
    ELSE IF IntRaises(rating_str) THEN "ValueError"
    ELSE IF IntOf(rating_str) < MinRating THEN "Rating must be between 1 and 5."
    ELSE IF ~Truthy(text) THEN "Review text cannot be empty."
    ELSE ""

ReviewFormError(rating_str, text, not_a_number) ==
    IF ~IsDigit(rating_str) THEN not_a_number
    ELSE IF IntRaises(rating_str) THEN "ValueError"
    ELSE IF IntOf(rating_str) < MinRating \/ IntOf(rating_str) > MaxRating
         THEN "Rating must be between 1 and 5."
    ELSE IF ~Truthy(text) THEN "Review text cannot be empty."
    ELSE ""

ReviewsCreated == nextId - FirstId - Len(users)

(***************************************************************************)
(* POST /cafe/<cafe_id>/review                                             *)
(***************************************************************************)
NewReview(id, cafe_id, cu, rating, text, t) ==
    [id |-> id, cafe_id |-> cafe_id, user_id |-> ObjectId(cu.id),
     username |-> cu.username, rating |-> rating, text |-> text,
     created_at |-> t]

AddReview(c, cafe_id, rating_in, text_in) ==
    /\ Starts(c, "add_review")
    /\ IF ObjectIdRaises(cafe_id)
       THEN /\ Reply(c, "add_review", NoForm, "redirect", "home", "Invalid cafe link.", 0, {})
            /\ UNCHANGED <<reviews, nextId, now>>
       ELSE IF CafesById(cafes, ObjectId(cafe_id)) = {}
       THEN /\ Reply(c, "add_review", NoForm, "redirect", "home", "Cafe not found.", 0, {})
            /\ UNCHANGED <<reviews, nextId, now>>
       ELSE LET form == Form(rating_in, text_in)
                rating_str == Strip(rating_in)
                text == Strip(text_in)
                error == ReviewFormError(rating_str, text,
                             "Rating must be a number from 1 to 5.")
            IN  IF error = "ValueError"
                THEN /\ Reply(c, "add_review", form, "fault", "500", error, 0, {})
                     /\ UNCHANGED <<reviews, nextId, now>>
                ELSE IF error # ""
                THEN /\ Reply(c, "add_review", form, "redirect", "cafe_detail",
                              error, 0, {})
                     /\ UNCHANGED <<reviews, nextId, now>>
                ELSE /\ ReviewsCreated < MaxReviews
                     /\ reviews' = reviews \cup
                            {NewReview(nextId, ObjectId(cafe_id), req[c].cu,
                                       IntOf(rating_str), text, now)}
                     /\ nextId' = nextId + 1
                     /\ now' = now + 1
                     /\ Reply(c, "add_review", form, "redirect", "cafe_detail",
                              "Review posted!",
                              nextId, {})
    /\ UNCHANGED <<users, cafes, session>>

(***************************************************************************)
(* The start of delete_review and edit_review: the lookup of the review    *)
(* and the author check.  "" when the request may go on.                   *)
(***************************************************************************)
\* the author check left out
IsAuthor_Anyone(review, cu) == TRUE

IsAuthor(review, cu) == review.user_id = cu.id

ReviewLookupError(rs, review_id, cu, not_yours) ==
    IF ObjectIdRaises(review_id) THEN "Invalid review."
    ELSE IF ReviewsById(rs, ObjectId(review_id)) = {} THEN "Review not found."
    ELSE IF \E r \in ReviewsById(rs, ObjectId(review_id)) : ~IsAuthor(r, cu)
         THEN not_yours
    ELSE ""

\* where the refusals of the lookup redirect to
LookupRedirect(error) ==
    IF error \in {"Invalid review.", "Review not found."} THEN "home"
    ELSE "cafe_detail"

CafeOfReview(rs, rid) == (CHOOSE r \in ReviewsById(rs, rid) : TRUE).cafe_id

(***************************************************************************)
(* POST /review/<review_id>/delete                                         *)
(***************************************************************************)
DeleteFind(c, review_id) ==
    /\ Starts(c, "delete_review")
    /\ LET error == ReviewLookupError(reviews, review_id, req[c].cu,
                        "You can only delete your own review.")
       IN  IF error # ""
           THEN Reply(c, "delete_review", NoForm, "redirect",
                      LookupRedirect(error), error, review_id, {})
           ELSE /\ req' = [req EXCEPT ![c].route = "delete_review",
                              ![c].pc = "delete",
                              ![c].rid = ObjectId(review_id),
                              ![c].cafe = CafeOfReview(reviews, ObjectId(review_id))]
                /\ last' = NoResponse
    /\ UNCHANGED <<Store, session>>

DeleteCommit(c) ==
    /\ At(c, "delete_review", "delete")
    /\ reviews' = DeleteReview(reviews, req[c].rid)
    /\ Reply(c, "delete_review", NoForm, "redirect", "cafe_detail", "Review deleted.", req[c].rid, {})
    /\ UNCHANGED <<users, cafes, nextId, now, session>>

(***************************************************************************)
(* POST /review/<review_id>/edit                                           *)
(***************************************************************************)
EditFind(c, review_id) ==
    /\ Starts(c, "edit_review")
    /\ LET error == ReviewLookupError(reviews, review_id, req[c].cu,
                        "You can only edit your own review.")
       IN  IF error # ""
           THEN Reply(c, "edit_review", NoForm, "redirect",
                      LookupRedirect(error), error, review_id, {})
           ELSE /\ req' = [req EXCEPT ![c].route = "edit_review",
                              ![c].pc = "update",
                              ![c].rid = ObjectId(review_id),
                              ![c].cafe = CafeOfReview(reviews, ObjectId(review_id))]
                /\ last' = NoResponse
    /\ UNCHANGED <<Store, session>>

EditUpdate(c, rating_in, text_in) ==
    /\ At(c, "edit_review", "update")
    /\ LET form == Form(rating_in, text_in)
           rating_str == Strip(rating_in)
           text == Strip(text_in)
           error == ReviewFormError(rating_str, text, "Rating must be a number 1-5.")
       IN  IF error = "ValueError"
           THEN /\ Reply(c, "edit_review", form, "fault", "500", error,
                         req[c].rid, {})
                /\ UNCHANGED reviews
           ELSE IF error # ""
           THEN /\ Reply(c, "edit_review", form, "redirect", "cafe_detail",
                         error, req[c].rid, {})
                /\ UNCHANGED reviews
           ELSE /\ reviews' = UpdateReview(reviews, req[c].rid, IntOf(rating_str), text)
                /\ Reply(c, "edit_review", form, "redirect", "cafe_detail",
                         "Review updated.",
                         req[c].rid, {})
    /\ UNCHANGED <<users, cafes, nextId, now, session>>

(***************************************************************************)
(* The application: any client may send any request, and the steps of the  *)
(* requests in flight interleave.                                          *)
(***************************************************************************)
AccountSteps(c) ==
    \/ Index(c)
    \/ \E u \in UsernameInputs, e \in EmailInputs, p \in PasswordInputs :
           SignupValidate(c, u, e, p)
    \/ SignupFindUsername(c)
    \/ SignupInsert(c)
    \/ \E e \in EmailInputs, p \in PasswordInputs, n \in NextInputs :
           Login(c, e, p, n)
    \/ Logout(c)

ProfileSteps(c) ==
    \/ \E role \in RoleInputs : SelectRole(c, role)
    \/ \E u \in ProfileUsernameInputs, ph \in PhoneInputs,
          sl \in ShopLocationInputs, oh \in OperationHoursInputs :
           Profile(c, u, ph, sl, oh)
    \/ Settings(c)
    \/ SavedPlaces(c)
    \/ \E sel \in SelectedInputs : Home(c, sel)

ReviewSteps(c) ==
    \/ \E k \in IdInputs : CafeDetail(c, k)
    \/ \E k \in IdInputs, f \in ReviewForms : AddReview(c, k, f.rating, f.text)
    \/ \E rid \in IdInputs : DeleteFind(c, rid)
    \/ DeleteCommit(c)
    \/ \E rid \in IdInputs : EditFind(c, rid)
    \/ \E f \in ReviewForms : EditUpdate(c, f.rating, f.text)

SearchSteps(c) == \E q \in QueryInputs : Search(c, q)

Next ==
    \E c \in Clients :
        \/ \E route \in Routes : Authenticate(c, route)
        \/ AccountSteps(c)
        \/ ProfileSteps(c)
        \/ ReviewSteps(c)
        \/ SearchSteps(c)

Spec == Init /\ [][Next]_vars

(***************************************************************************)
(* Scenarios: the application with the clients' requests restricted to a   *)
(* group of routes.  A client sends a request outside the group only when  *)
(* it is anonymous (the request then ends in Authenticate).                *)
(***************************************************************************)
SendsOnly(c, routes, route) ==
    route \in routes \/ ~IsAuthenticated(load_user(users, session[c]))

AccountRoutes == {"index", "signup", "login", "logout"}

NextAccounts ==
    \E c \in Clients :
        \/ \E route \in Routes :
               SendsOnly(c, AccountRoutes, route) /\ Authenticate(c, route)
        \/ AccountSteps(c)

SpecAccounts == Init /\ [][NextAccounts]_vars

\* Two accounts exist: alice (a customer) and bob (an owner); both have
\* posted their profile once.  Client 1 is logged in as alice.
Alice ==
    [NewUser(FirstId, <<"a">>, <<"a">>, P6, 0) EXCEPT
        !.role = "customer", !.phone = <<"5">>]

Bob ==
    [NewUser(FirstId + 1, <<"b">>, <<"b">>, P6, 1) EXCEPT
        !.role = "owner", !.phone = <<"5">>, !.shop_location = <<"s">>,
        !.operation_hours = <<"h">>]

SettingsShown ==
    [NoResponse EXCEPT !.route = "settings", !.user = Alice.id,
                       !.kind = "render", !.page = "settings.html"]

InitTwoUsers ==
    /\ users = <<Alice, Bob>>
    /\ cafes = MkCafes(CafeNames)
    /\ reviews = {}
    /\ nextId = FirstId + 2
    /\ now = 2
    /\ session \in {[c \in Clients |-> IF c = 1 THEN Alice.id ELSE s] :
                       s \in {Alice.id, Bob.id}}
    /\ req = [c \in Clients |-> Idle]
    /\ last = SettingsShown

ProfileRoutes == {"select_role", "profile", "settings", "saved_places", "home"}

NextProfile ==
    \E c \in Clients :
        \/ \E route \in ProfileRoutes : Authenticate(c, route)
        \/ ProfileSteps(c)

SpecProfile == InitTwoUsers /\ [][NextProfile]_vars

ReviewRoutes ==
    {"cafe_detail", "add_review", "delete_review", "edit_review", "profile"}

ReviewerUsernameInputs == {<<"a">>}
ReviewIdInputs ==
    {i \in FirstId..(nextId - 1) : UserIndexById(users, i) = 0}
        \cup {GhostId, BadIdStr}
ReviewCafeInputs == {1, GhostId, BadIdStr}

NextReviews ==
    \E c \in Clients :
        \/ \E route \in ReviewRoutes : Authenticate(c, route)
        \/ \E k \in ReviewCafeInputs : CafeDetail(c, k)
        \/ \E k \in ReviewCafeInputs, f \in ReviewForms :
               AddReview(c, k, f.rating, f.text)
        \/ \E rid \in ReviewIdInputs : DeleteFind(c, rid)
        \/ DeleteCommit(c)
        \/ \E rid \in ReviewIdInputs : EditFind(c, rid)
        \/ \E f \in ReviewForms : EditUpdate(c, f.rating, f.text)
        \/ \E u \in ReviewerUsernameInputs :
               Profile(c, u, <<"5">>, <<"s">>, <<"h">>)

SpecReviews == InitTwoUsers /\ [][NextReviews]_vars

\* The cafes are data the application only reads: the search scenario draws
\* them from a pool of names.
NamePool == {<<"A", "b">>, <<"a", ".">>, <<"B">>, <<"b", "(", "a">>}

InitSearch ==
    /\ users = <<Alice, Bob>>
    /\ cafes \in {MkCafes(<<n1, n2>>) : n1, n2 \in NamePool}
    /\ reviews = {}
    /\ nextId = FirstId + 2
    /\ now = 2
    /\ session = [c \in Clients |-> Alice.id]
    /\ req = [c \in Clients |-> Idle]
    /\ last = SettingsShown

NextSearch ==
    \E c \in Clients :
        \/ Authenticate(c, "search")
        \/ SearchSteps(c)

SpecSearch == InitSearch /\ [][NextSearch]_vars

(***************************************************************************)
(*                             PROPERTIES                                  *)
(*                                                                         *)
(* A step sent a response exactly when last' is not NoResponse; last'      *)
(* then tells the route, the identity, the form and the review of the      *)
(* request, and the unprimed variables are the state the step acted on.    *)
(***************************************************************************)
MutationRoutes == {"edit_review", "delete_review"}

NotYours(route) ==
    IF route = "edit_review" THEN "You can only edit your own review."
    ELSE "You can only delete your own review."

(***************************************************************************)
(* C1.  Only the author changes or removes a review: a step that changes   *)
(* or removes review R answers an edit_review or delete_review request on  *)
(* R made by R's author, and an edit_review or delete_review request on an *)
(* existing review R by any other identity leaves R as it is and is        *)
(* answered "You can only edit/delete your own review."                    *)
(***************************************************************************)
C1_OnlyAuthorMutates ==
    [][\A r \in reviews :
          /\ r \notin reviews' =>
                /\ last'.route \in MutationRoutes
                /\ last'.rid = r.id
                /\ last'.user = r.user_id
          /\ (/\ last'.route \in MutationRoutes
              /\ last'.rid = r.id
              /\ last'.user # r.user_id) =>
                /\ r \in reviews'
                /\ last'.flash = NotYours(last'.route)]_vars

\* another identity was refused the deletion of a review, which still exists
C1_Witness ==
    /\ last.flash = "You can only delete your own review."
    /\ \E r \in reviews : r.id = last.rid /\ r.user_id # last.user

(***************************************************************************)
(* C4.  An add_review or edit_review form whose rating (trimmed) is not a  *)
(* decimal integer, or is an integer outside 1..5, or whose text is empty  *)
(* after trimming, is not accepted and leaves the reviews unchanged; and   *)
(* every stored review has a rating in 1..5 and a non-empty text.          *)
(***************************************************************************)
ClaimedInvalid(form) ==
    LET r == Strip(form.rating)
        t == Strip(form.text)
    IN  \/ r = <<>>
        \/ \E i \in 1..Len(r) : r[i] \notin AsciiDigits
        \/ IntOf(r) \notin MinRating..MaxRating
        \/ t = <<>>

Accepted == {"Review posted!", "Review updated."}

StoredReviewsValid ==
    \A r \in reviews : r.rating \in MinRating..MaxRating /\ r.text # <<>>

C4_InvalidFormRejected ==
    /\ []StoredReviewsValid
    /\ [][(/\ last'.route \in {"add_review", "edit_review"}
           /\ "rating" \in DOMAIN last'.form
           /\ ClaimedInvalid(last'.form)) =>
             /\ reviews' = reviews
             /\ last'.flash \notin Accepted]_vars

\* a form with rating 6 was refused while a review is stored
C4_Witness ==
    /\ last.route \in {"add_review", "edit_review"}
    /\ last.flash = "Rating must be between 1 and 5."
    /\ last.form.rating = <<"6">>
    /\ reviews # {}

(***************************************************************************)
(* C8.  No request ends in an unhandled fault: every response is a         *)
(* rendered page or a redirect.                                            *)
(***************************************************************************)
C8_NoFault == last.kind # "fault"

(***************************************************************************)
(* C9.  A review becomes active only when it is created, with a fresh      *)
(* identifier, so a deleted review is never active again; and an           *)
(* edit_review or delete_review on a review that is not active (never      *)
(* created, or deleted) is never answered "Review updated." or "Review     *)
(* deleted."                                                               *)
(***************************************************************************)
C9_NoSuccessOnGoneReview ==
    [][/\ \A r2 \in reviews' : (\E r \in reviews : r.id = r2.id) \/ r2.id = nextId
       /\ last'.flash \in {"Review updated.", "Review deleted."} =>
              ReviewsById(reviews, last'.rid) # {}]_vars

(***************************************************************************)
(* C10.  A successful edit_review sets the rating and the text of the      *)
(* targeted review to those of the form and changes nothing else: not the  *)
(* review's author, cafe, username or creation time, no other review, no   *)
(* user, no cafe.  And no step at all, a profile update included, changes  *)
(* the author of a review.                                                 *)
(***************************************************************************)
C10_EditFrame ==
    [][/\ last'.flash = "Review updated." =>
              /\ users' = users
              /\ cafes' = cafes
              /\ {r.id : r \in reviews'} = {r.id : r \in reviews}
              /\ \A r \in reviews :
                    IF r.id = last'.rid
                    THEN [r EXCEPT !.rating = IntOf(Strip(last'.form.rating)),
                                   !.text = Strip(last'.form.text)] \in reviews'
                    ELSE r \in reviews'
       /\ \A r \in reviews, r2 \in reviews' :
              r2.id = r.id => r2.user_id = r.user_id]_vars

\* a review was edited while another review exists, after its author changed
\* their username
C10_Witness ==
    /\ last.flash = "Review updated."
    /\ Cardinality(reviews) = 2
    /\ \E r \in reviews :
          /\ r.id = last.rid
          /\ r.rating = IntOf(Strip(last.form.rating))
          /\ \E i \in 1..Len(users) :
                users[i].id = r.user_id /\ users[i].username # r.username

(***************************************************************************)
(* C2.  No two user records share a username, and no two share an e-mail.  *)
(***************************************************************************)
C2_UniqueUsers ==
    \A i, j \in 1..Len(users) :
        i # j => /\ users[i].username # users[j].username
                 /\ users[i].email # users[j].email

(***************************************************************************)
(* C3.  The signup checks run in the order username, e-mail, password,     *)
(* password length, e-mail registered, username registered, and the first  *)
(* that fails decides the answer; a failed signup leaves users unchanged;  *)
(* a user is inserted only by a signup that passed the six checks, with    *)
(* the fields of its form and no role.                                     *)
(***************************************************************************)
FormFieldsError(form) ==
    IF Strip(form.username) = <<>> THEN "Username is required."
    ELSE IF Lower(Strip(form.email)) = <<>> THEN "Email is required."
    ELSE IF form.password = <<>> THEN "Password is required."
    ELSE IF Len(form.password) < MinPasswordLen
         THEN "Password must be at least 6 characters."
    ELSE ""

EmailRegistered(form) ==
    \E i \in 1..Len(users) : users[i].email = Lower(Strip(form.email))

UsernameRegistered(form) ==
    \E i \in 1..Len(users) : users[i].username = Strip(form.username)

C3_SignupValidation ==
    [][/\ \A c \in Clients :
             \* the form checks and the e-mail lookup: an error, or on to the next
             /\ (/\ req[c].pc = "handler"
                 /\ ~IsAuthenticated(req[c].cu)
                 /\ req'[c].pc = "idle"
                 /\ last'.route = "signup") =>
                   /\ users' = users
                   /\ last'.flash =
                          IF FormFieldsError(last'.form) # ""
                          THEN FormFieldsError(last'.form)
                          ELSE "An account with that email already exists."
                   /\ FormFieldsError(last'.form) = "" => EmailRegistered(last'.form)
             /\ (req[c].pc = "handler" /\ req'[c].pc = "find_username") =>
                   /\ users' = users
                   /\ FormFieldsError(req'[c].form) = ""
                   /\ ~EmailRegistered(req'[c].form)
             \* the username lookup
             /\ (req[c].pc = "find_username" /\ req'[c].pc = "idle") =>
                   /\ users' = users
                   /\ last'.flash = "That username is already taken."
                   /\ UsernameRegistered(req[c].form)
             /\ (req[c].pc = "find_username" /\ req'[c].pc = "insert") =>
                   /\ users' = users
                   /\ ~UsernameRegistered(req[c].form)
       \* the insert
       /\ users' # users =>
             \E c \in Clients :
                /\ req[c].pc = "insert" /\ req'[c].pc = "idle"
                /\ FormFieldsError(req[c].form) = ""
                /\ Len(users') = Len(users) + 1
                /\ SubSeq(users', 1, Len(users)) = users
                /\ LET new == users'[Len(users')]
                   IN  /\ new.username = Strip(req[c].form.username)
                       /\ new.email = Lower(Strip(req[c].form.email))
                       /\ check_password_hash(new.password_hash,
                                              req[c].form.password)
                       /\ new.role = NoRole]_vars

\* a signup passed five checks and failed the last, with a user registered
C3_Witness ==
    /\ last.route = "signup"
    /\ last.flash = "That username is already taken."
    /\ Len(users) >= 1

(***************************************************************************)
(* C5.  A client whose cookie holds no user identifier, a malformed one or *)
(* one that names no user record is anonymous: its request to a            *)
(* login_required route is answered with the redirect to the login page,   *)
(* reaches no view function and writes nothing.                            *)
(***************************************************************************)
SessionResolves(c) == \E i \in 1..Len(users) : users[i].id = session[c]

LoginRedirect(response) ==
    /\ response.kind = "redirect"
    /\ response.page = "login"
    /\ response.flash = "Please log in to access that page."

C5_AnonymousIsTurnedAway ==
    /\ [](\A c \in Clients :
             (req[c].pc # "idle" /\ ~SessionResolves(c)) =>
                 ~IsAuthenticated(req[c].cu))
    /\ [][/\ \A c \in Clients :
                (/\ req[c].pc = "handler"
                 /\ ~IsAuthenticated(req[c].cu)
                 /\ req'[c] # req[c]) =>
                    \/ last'.route \in OpenRoutes
                    \/ req'[c].route \in OpenRoutes
          /\ (last'.route \in LoginRequiredRoutes /\ last'.user = 0) =>
                /\ LoginRedirect(last')
                /\ UNCHANGED <<users, cafes, reviews, nextId, now, session, req>>
         ]_vars

\* a user exists, and a client whose cookie names no user record was sent
\* from delete_review to the login page
C5_Witness ==
    /\ Len(users) >= 1
    /\ session[1] = GhostId \/ session[1] = BadIdStr
    /\ SessionResolves(2)
    /\ last.route = "delete_review"
    /\ LoginRedirect(last)

(***************************************************************************)
(* C6.  A login with an e-mail no user has and a login with a registered   *)
(* e-mail and a password that does not match are answered alike: the       *)
(* login page again with "Invalid email or password.", and no session.     *)
(***************************************************************************)
C6_LoginFailureIsGeneric ==
    [][\A c \in Clients :
          (/\ req[c].pc = "handler"
           /\ ~IsAuthenticated(req[c].cu)
           /\ req'[c].pc = "idle"
           /\ last'.route = "login"
           /\ \A i \in 1..Len(users) :
                 users[i].email = Lower(Strip(last'.form.email)) =>
                     ~check_password_hash(users[i].password_hash,
                                          last'.form.password)) =>
             /\ last'.kind = "render"
             /\ last'.page = "login.html"
             /\ last'.flash = "Invalid email or password."
             /\ session' = session]_vars

\* a login with a registered e-mail and a wrong password was refused
C6_Witness ==
    /\ last.route = "login"
    /\ last.flash = "Invalid email or password."
    /\ \E i \in 1..Len(users) :
          /\ users[i].email = Lower(Strip(last.form.email))
          /\ ~check_password_hash(users[i].password_hash, last.form.password)

(***************************************************************************)
(* C7.  search returns no cafe for an empty or absent query, and else      *)
(* exactly the cafes whose name contains the query as a literal substring, *)
(* compared without regard to case.                                        *)
(***************************************************************************)
ContainsIgnoringCase(name, q) ==
    \E o \in 0..(Len(name) - Len(q)) :
        \A j \in 1..Len(q) : LowerChar(name[o + j]) = LowerChar(q[j])

C7_SearchIsLiteralSubstring ==
    (last.route = "search" /\ last.kind = "render") =>
        last.data = IF ~Truthy(last.form.q) THEN {}
                    ELSE {k \in cafes : ContainsIgnoringCase(k.name, last.form.q)}

=============================================================================
